---------------------------- MODULE Spec2Model ----------------------------
(***************************************************************************)
(* Skill relevance scoring / selection (src/core/skill_loader.py) and the  *)
(* pipeline coordinator (src/core/orchestrator.py).                        *)
(*                                                                         *)
(* Text that the code inspects character by character (skill names,        *)
(* descriptions, keywords, queries, approval answers) is a sequence of     *)
(* one-character strings.  Text that is only stored, compared or           *)
(* concatenated (role ids, phase labels, log lines) is a TLA+ string;      *)
(* Str turns the former into the latter.                                   *)
(* Python's None is the empty tuple and a present value x is <<x>>.        *)
(*                                                                         *)
(* Scores are exact rationals written in units of 1/8400, so that          *)
(* 0.5 = 4200, 0.3 = 2520, 0.2 = 1680, 0.15 = 1260, 0.1 = 840 and          *)
(* 0.3 * c / q is an integer for every word count q in 1..10.  The         *)
(* rounding of IEEE doubles is not modelled.                               *)
(***************************************************************************)
EXTENDS Integers, Sequences, FiniteSets, TLC

VARIABLES
    args,            \* the arguments of a direct call of a pure function
    out,             \* None, or Some(value returned by that call)
    stateFile,       \* <workspace>/.vibecode/state.json: None or Some(content)
    sessionFile,     \* <workspace>/.vibecode/session_context.md: None or Some(chunks written)
    clock,           \* the number of datetime.now() readings so far
    skills,          \* skill_loader.skills, the catalog in insertion order
    agents,          \* per coordinator: the ids in self.agents
    state,           \* per coordinator: self.state
    pc,              \* per coordinator: where its current call stands
    call,            \* per coordinator: task_type, agent_ids, params of the request being
                     \* approved, or of the current or last call of execute_pipeline
    loop_i,          \* per coordinator: the index i of the for loop (1-based)
    results,         \* per coordinator: the local dict results of execute_pipeline
    selected_skills, \* per coordinator: the local list of (skill, score)
    context,         \* per coordinator: the local context, as its context_parts
    approval,        \* per coordinator: None, or Some(text typed at the prompt)
    ret,             \* per coordinator: None, or Some(value returned by the last call)
    invoked,         \* per coordinator: execute_pipeline entries since the last call began
    work             \* the number of roles handed to execute_pipeline so far

pureVars == <<args, out>>
diskVars == <<stateFile, sessionFile>>
localVars == <<call, loop_i, results, selected_skills, context, approval>>
coordVars == <<stateFile, sessionFile, clock, skills, agents, state, pc, call, loop_i,
               results, selected_skills, context, approval, ret, invoked, work>>
vars == <<args, out, stateFile, sessionFile, clock, skills, agents, state, pc, call,
          loop_i, results, selected_skills, context, approval, ret, invoked, work>>

None == <<>>
Some(x) == <<x>>

(***************************************************************************)
(* Bounds of the enumerated inputs.                                        *)
(***************************************************************************)
MaxNameLen == 2
MaxQueryLen == 3

(***************************************************************************)
(* Python str primitives.                                                  *)
(***************************************************************************)
UpperCase == <<"A", "B", "C", "D", "E", "F", "G", "H", "I", "J", "K", "L", "M",
               "N", "O", "P", "Q", "R", "S", "T", "U", "V", "W", "X", "Y", "Z">>
LowerCase == <<"a", "b", "c", "d", "e", "f", "g", "h", "i", "j", "k", "l", "m",
               "n", "o", "p", "q", "r", "s", "t", "u", "v", "w", "x", "y", "z">>
Whitespace == {" ", "\t", "\n", "\r", "\f"}

\* str.lower() on one character
LowerChar(c) ==
    IF \E k \in 1..Len(UpperCase) : UpperCase[k] = c
    THEN LowerCase[CHOOSE k \in 1..Len(UpperCase) : UpperCase[k] = c]
    ELSE c

\* str.lower()
Lower(s) == [k \in 1..Len(s) |-> LowerChar(s[k])]

\* str.replace(old, new) for one-character old and new
Replace(s, old, new) == [k \in 1..Len(s) |-> IF s[k] = old THEN new ELSE s[k]]

\* the Python test  a in b  on two strings
IsSubstr(a, b) ==
    \E k \in 0..(Len(b) - Len(a)) : SubSeq(b, k + 1, k + Len(a)) = a

\* str.split() with no argument: the maximal runs of non-whitespace
RECURSIVE SplitFrom(_, _, _)
SplitFrom(s, k, word) ==
    IF k > Len(s)
    THEN IF word = <<>> THEN <<>> ELSE <<word>>
    ELSE IF s[k] \in Whitespace
         THEN IF word = <<>>
              THEN SplitFrom(s, k + 1, <<>>)
              ELSE <<word>> \o SplitFrom(s, k + 1, <<>>)
         ELSE SplitFrom(s, k + 1, Append(word, s[k]))

Split(s) == SplitFrom(s, 1, <<>>)

\* set(list)
ToSet(seq) == {seq[k] : k \in 1..Len(seq)}

\* str.strip() with no argument
RECURSIVE LStrip(_)
LStrip(s) ==
    IF s # <<>> /\ Head(s) \in Whitespace THEN LStrip(Tail(s)) ELSE s

RECURSIVE RStrip(_)
RStrip(s) ==
    IF s # <<>> /\ s[Len(s)] \in Whitespace
    THEN RStrip(SubSeq(s, 1, Len(s) - 1))
    ELSE s

Strip(s) == RStrip(LStrip(s))

\* a character sequence as one string
RECURSIVE Str(_)
Str(s) ==
    IF s = <<>> THEN ""
    ELSE IF Len(s) = 1 THEN s[1]
    ELSE LET half == Len(s) \div 2
         IN  Str(SubSeq(s, 1, half)) \o Str(SubSeq(s, half + 1, Len(s)))

\* sep.join(list) on strings
RECURSIVE Join(_, _)
Join(sep, seq) ==
    IF seq = <<>> THEN ""
    ELSE IF Len(seq) = 1 THEN seq[1]
    ELSE seq[1] \o sep \o Join(sep, Tail(seq))

\* list[:n] that keeps one entry too many
SliceTo_OneMore(seq, n) ==
    SubSeq(seq, 1, IF n + 1 < Len(seq) THEN n + 1 ELSE Len(seq))

\* list[:n]
SliceTo(seq, n) ==
    IF n >= 0
    THEN SubSeq(seq, 1, IF n < Len(seq) THEN n ELSE Len(seq))
    ELSE SubSeq(seq, 1, IF Len(seq) + n > 0 THEN Len(seq) + n ELSE 0)

(***************************************************************************)
(* Skill.relevance_score and Skill._get_agent_affinity.                    *)
(***************************************************************************)
W_NAME == 4200
W_DESC == 2520
W_KEYWORD == 1260
W_AFFINITY == 1680
ONE == 8400

affinities ==
    [ r \in {"00", "01", "02", "03", "04", "05", "06", "07", "08", "09"} |->
        CASE r = "00" -> {"code-review", "sequential-thinking", "problem-solving", "debugging"}
          [] r = "01" -> {"planning", "sequential-thinking", "problem-solving"}
          [] r = "02" -> {"backend-development", "frontend-development", "web-frameworks",
                          "databases", "better-auth", "payment-integration", "debugging"}
          [] r = "03" -> {"ui-ux-pro-max", "frontend-design", "ui-styling", "threejs", "ai-artist"}
          [] r = "04" -> {"code-review", "sequential-thinking", "problem-solving"}
          [] r = "05" -> {"common"}
          [] r = "06" -> {"devops", "chrome-devtools"}
          [] r = "07" -> {"debugging", "problem-solving", "sequential-thinking"}
          [] r = "08" -> {"devops", "planning"}
          [] r = "09" -> {"debugging", "code-review"} ]

\* 1 for an affine skill, 0 otherwise (the code's 1.0 / 0.0)
_get_agent_affinity(skill, agent_id) ==
    LET relevant_skills == IF agent_id \in DOMAIN affinities
                           THEN affinities[agent_id] ELSE {}
    IN  IF Str(skill.name) \in relevant_skills THEN 1 ELSE 0

\* 1. direct skill name match
NameTerm(skill, query_lower) ==
    IF IsSubstr(Replace(skill.name, "-", " "), query_lower) THEN W_NAME ELSE 0

\* 2. description keyword match
DescriptionTerm(skill, query_lower) ==
    IF skill.description # <<>>
    THEN LET desc_words == ToSet(Split(Lower(skill.description)))
             query_words == ToSet(Split(query_lower))
             common == desc_words \cap query_words
             n == IF Cardinality(query_words) > 1 THEN Cardinality(query_words) ELSE 1
         IN  IF common # {} THEN (W_DESC * Cardinality(common)) \div n ELSE 0
    ELSE 0

\* 3. keyword match, one addition per list entry
RECURSIVE KeywordTerm(_, _)
KeywordTerm(keywords, query_lower) ==
    IF keywords = <<>> THEN 0
    ELSE (IF IsSubstr(Head(keywords), query_lower) THEN W_KEYWORD ELSE 0)
         + KeywordTerm(Tail(keywords), query_lower)

\* 4. agent-skill affinity boost; agent_id is None or Some(id)
AffinityTerm(skill, agent_id) ==
    IF agent_id # None /\ agent_id[1] # ""
    THEN _get_agent_affinity(skill, agent_id[1]) * W_AFFINITY
    ELSE 0

relevance_score_unclamped(skill, query, agent_id) ==
    LET query_lower == Lower(query)
    IN  NameTerm(skill, query_lower) + DescriptionTerm(skill, query_lower)
        + KeywordTerm(skill.keywords, query_lower) + AffinityTerm(skill, agent_id)

relevance_score(skill, query, agent_id) ==
    LET query_lower == Lower(query)
        score == NameTerm(skill, query_lower) + DescriptionTerm(skill, query_lower)
                 + KeywordTerm(skill.keywords, query_lower) + AffinityTerm(skill, agent_id)
    IN  IF score < ONE THEN score ELSE ONE

(***************************************************************************)
(* A pure function is called directly, with no coordinator constructed.    *)
(***************************************************************************)
Insts == {1, 2}

NoCoordinator ==
    /\ stateFile = None
    /\ sessionFile = None
    /\ clock = 0
    /\ skills = <<>>
    /\ agents = [o \in Insts |-> {}]
    /\ state = [o \in Insts |-> None]
    /\ pc = [o \in Insts |-> "none"]
    /\ call = [o \in Insts |-> None]
    /\ loop_i = [o \in Insts |-> 0]
    /\ results = [o \in Insts |-> None]
    /\ selected_skills = [o \in Insts |-> <<>>]
    /\ context = [o \in Insts |-> <<>>]
    /\ approval = [o \in Insts |-> None]
    /\ ret = [o \in Insts |-> None]
    /\ invoked = [o \in Insts |-> 0]
    /\ work = 0

(***************************************************************************)
(* Inputs of the scoring checks.                                           *)
(***************************************************************************)
SeqsUpTo(S, n) == UNION {[1..k -> S] : k \in 0..n}

PaymentIntegration ==
    <<"p", "a", "y", "m", "e", "n", "t", "-", "i", "n", "t", "e", "g", "r", "a", "t", "i", "o", "n">>
StripeCheckout ==
    <<"s", "t", "r", "i", "p", "e", " ", "c", "h", "e", "c", "k", "o", "u", "t">>
ScenarioAQuery ==
    <<"c", "r", "e", "a", "t", "e", " ", "a", " ", "p", "a", "y", "m", "e", "n", "t", " ",
      "i", "n", "t", "e", "g", "r", "a", "t", "i", "o", "n", " ", "w", "i", "t", "h", " ",
      "s", "t", "r", "i", "p", "e">>

\* directory names: non-empty, any case, '-' and '_' as separators
NameAlphabet == {"a", "B", "-", "_"}
ScoreNames == (SeqsUpTo(NameAlphabet, MaxNameLen) \ {<<>>}) \cup {PaymentIntegration}
QueryAlphabet == {"a", "B", " "}
ScoreQueries == SeqsUpTo(QueryAlphabet, MaxQueryLen) \cup {ScenarioAQuery}
ScoreDescriptions == {<<>>, <<"a">>, <<"B", " ", "a">>, StripeCheckout}
ScoreKeywords ==
    { <<>>, << <<"a">> >>, << <<"b">>, <<"B">>, <<"b">>, <<"a">>, <<"a", "b">> >>,
      << <<"a">>, <<>>, <<"b">> >>,
      << <<"s", "t", "r", "i", "p", "e">>, <<"p", "a", "y", "m", "e", "n", "t">> >> }
ScoreAgentIds == {None, Some(""), Some("02"), Some("77")}

ScoreSkills ==
    [name : ScoreNames, description : ScoreDescriptions,
     keywords : ScoreKeywords, content : {"doc"}]

InitScore ==
    /\ args \in [skill : ScoreSkills, query : ScoreQueries, agent_id : ScoreAgentIds]
    /\ out = None
    /\ NoCoordinator

CallRelevanceScore ==
    /\ out = None
    /\ out' = Some(relevance_score(args.skill, args.query, args.agent_id))
    /\ UNCHANGED args
    /\ UNCHANGED coordVars

NextScore == CallRelevanceScore

SpecScore == InitScore /\ [][NextScore]_vars

\* C7: for every skill, query and role id (None included) relevance_score
\* returns a value between 0.0 and 1.0 inclusive.
C7_ScoreInUnitInterval ==
    out # None => (0 <= out[1] /\ out[1] <= ONE)

\* a call whose four terms add up to more than 1.0 and that returned 1.0
C7_Witness ==
    /\ out # None
    /\ out[1] = ONE
    /\ NameTerm(args.skill, Lower(args.query))
       + KeywordTerm(args.skill.keywords, Lower(args.query)) > ONE

\* the skill's name with its separators replaced by spaces
Separators == {"-", "_"}
NameWithSpaces(name) ==
    [k \in 1..Len(name) |-> IF name[k] \in Separators THEN " " ELSE name[k]]

\* C8: if the skill's name with its separators replaced by spaces is a
\* substring of the query, the score is at least 0.5 for every role id,
\* description and keyword list, and for every directory name (upper-case
\* letters and separators other than '-' included).
C8_NameMatchAtLeastHalf ==
    (out # None /\ IsSubstr(NameWithSpaces(args.skill.name), args.query))
        => out[1] >= W_NAME

(***************************************************************************)
(* SkillLoader.select_skills.  The catalog (the dict's values in insertion *)
(* order) is a sequence of skills with distinct names; a scored entry is   *)
(* the pair <<skill, score>>.                                              *)
(***************************************************************************)
\* one step of the stable descending sort with the ties reversed
InsertByScore_TiesReversed(sorted, item) ==
    LET k == Cardinality({j \in 1..Len(sorted) : sorted[j][2] > item[2]})
    IN  SubSeq(sorted, 1, k) \o <<item>> \o SubSeq(sorted, k + 1, Len(sorted))

\* list.sort(key=score, reverse=True) is stable: an entry goes behind every
\* earlier entry whose score is at least its own
InsertByScore(sorted, item) ==
    LET k == Cardinality({j \in 1..Len(sorted) : sorted[j][2] >= item[2]})
    IN  SubSeq(sorted, 1, k) \o <<item>> \o SubSeq(sorted, k + 1, Len(sorted))

RECURSIVE SortByScoreDesc(_)
SortByScoreDesc(entries) ==
    IF entries = <<>> THEN <<>>
    ELSE InsertByScore(SortByScoreDesc(SubSeq(entries, 1, Len(entries) - 1)),
                       entries[Len(entries)])

\* the loop that keeps only the skills above min_score
RECURSIVE ScoreAll_StrictThreshold(_, _, _, _)
ScoreAll_StrictThreshold(catalog, query, agent_id, min_score) ==
    IF catalog = <<>> THEN <<>>
    ELSE LET score == relevance_score(Head(catalog), query, agent_id)
         IN  (IF score > min_score THEN << <<Head(catalog), score>> >> ELSE <<>>)
             \o ScoreAll_StrictThreshold(Tail(catalog), query, agent_id, min_score)

\* the loop of lines 177-181: score every skill, keep those >= min_score
RECURSIVE ScoreAll(_, _, _, _)
ScoreAll(catalog, query, agent_id, min_score) ==
    IF catalog = <<>> THEN <<>>
    ELSE LET score == relevance_score(Head(catalog), query, agent_id)
         IN  (IF score >= min_score THEN << <<Head(catalog), score>> >> ELSE <<>>)
             \o ScoreAll(Tail(catalog), query, agent_id, min_score)

select_skills(catalog, query, agent_id, max_skills, min_score) ==
    SliceTo(SortByScoreDesc(ScoreAll(catalog, query, agent_id, min_score)), max_skills)

MIN_SCORE_DEFAULT == 840
MAX_SKILLS_DEFAULT == 3

(***************************************************************************)
(* Inputs of the selection checks.                                         *)
(***************************************************************************)
MaxCatalog == 3
MaxCount == 3

SkillA == [name |-> <<"a">>, description |-> <<>>, keywords |-> << <<"a">> >>,
           content |-> "doc a"]
SkillB == [name |-> <<"b">>, description |-> <<>>, keywords |-> << <<"b">> >>,
           content |-> "doc b"]
SkillC == [name |-> <<"c", "-", "d">>, description |-> <<"a">>, keywords |-> <<>>,
           content |-> "doc c-d"]
SkillCommon == [name |-> <<"c", "o", "m", "m", "o", "n">>, description |-> <<>>,
                keywords |-> << <<>> >>, content |-> "doc common"]
SkillPool == {SkillA, SkillB, SkillC, SkillCommon}

\* catalogs: the name is the dict key, so names are distinct
Catalogs ==
    {c \in SeqsUpTo(SkillPool, MaxCatalog) :
        \A j, k \in 1..Len(c) : c[j].name = c[k].name => j = k}

SelectQueries ==
    { <<>>, <<"a">>, <<"B">>, <<"a", " ", "b">>, <<"c", " ", "d", " ", "A">> }
SelectAgentIds == {None, Some("05")}
SelectMinScores == {0, MIN_SCORE_DEFAULT, W_NAME}

InitSelect ==
    /\ args \in [skills : Catalogs, query : SelectQueries, agent_id : SelectAgentIds,
                 max_skills : (0 - MaxCount)..MaxCount, min_score : SelectMinScores]
    /\ out = None
    /\ NoCoordinator

CallSelectSkills ==
    /\ out = None
    /\ out' = Some(select_skills(args.skills, args.query, args.agent_id,
                                 args.max_skills, args.min_score))
    /\ UNCHANGED args
    /\ UNCHANGED coordVars

NextSelect == CallSelectSkills

SpecSelect == InitSelect /\ [][NextSelect]_vars

\* the number of catalog skills whose score reaches min_score
Qualifying ==
    Cardinality({k \in 1..Len(args.skills) :
        relevance_score(args.skills[k], args.query, args.agent_id) >= args.min_score})

\* the position of a returned skill in the catalog
CatalogIndex(skill) == CHOOSE k \in 1..Len(args.skills) : args.skills[k] = skill

\* C9 as stated: for every integer max_count, negative values included, the
\* returned list has at most max_count entries.
C9_AtMostMaxCount_Original ==
    out # None => Len(out[1]) <= args.max_skills

\* C9 as amended: for max_count >= 0 the returned list has at most max_count
\* entries; for max_count < 0 the slice drops the last -max_count qualifying
\* entries, so the list has max(0, q + max_count) entries, q being the number
\* of skills that reach min_score.
C9_AtMostMaxCount ==
    out # None =>
        /\ args.max_skills >= 0 => Len(out[1]) <= args.max_skills
        /\ args.max_skills < 0 =>
              Len(out[1]) = (IF Qualifying + args.max_skills > 0
                             THEN Qualifying + args.max_skills ELSE 0)

\* a call that truncated: more skills qualify than max_count > 0 allows
C9_Witness ==
    /\ out # None
    /\ args.max_skills > 0
    /\ Qualifying > args.max_skills
    /\ Len(out[1]) = args.max_skills

\* C10: the returned list is sorted by non-increasing score, and two returned
\* entries with equal score keep the catalog's iteration order.
C10_SortedStable ==
    out # None =>
        \A j, k \in 1..Len(out[1]) :
            j < k =>
                /\ out[1][j][2] >= out[1][k][2]
                /\ out[1][j][2] = out[1][k][2]
                      => CatalogIndex(out[1][j][1]) < CatalogIndex(out[1][k][1])

\* a returned list with a tie and a strict descent, whose best entry was not
\* first in the catalog
C10_Witness ==
    /\ out # None
    /\ Len(out[1]) = 3
    /\ out[1][1][2] = out[1][2][2]
    /\ out[1][2][2] > out[1][3][2]
    /\ CatalogIndex(out[1][1][1]) > CatalogIndex(out[1][3][1])

(***************************************************************************)
(* Skill.__init__ and Skill._parse_skill_file.  A SKILL.md is a header     *)
(* block (between two '---' lines) that may hold a description line and a  *)
(* keywords line, followed by a body; its text is the rendering of these.  *)
(* The header's lines hold no ']' and no line break, so the regular        *)
(* expressions of lines 31-41 find exactly the rendered parts.             *)
(***************************************************************************)
CONTENT_PREFIX == 500
KEYWORD_CAP == 10

\* tech_keywords, lines 56-72
tech_keywords ==
    <<
       <<"r", "e", "a", "c", "t">>,
       <<"v", "u", "e">>,
       <<"a", "n", "g", "u", "l", "a", "r">>,
       <<"t", "y", "p", "e", "s", "c", "r", "i", "p", "t">>,
       <<"j", "a", "v", "a", "s", "c", "r", "i", "p", "t">>,
       <<"p", "y", "t", "h", "o", "n">>,
       <<"n", "o", "d", "e">>,
       <<"e", "x", "p", "r", "e", "s", "s">>,
       <<"d", "j", "a", "n", "g", "o">>,
       <<"f", "l", "a", "s", "k">>,
       <<"f", "a", "s", "t", "a", "p", "i">>,
       <<"n", "e", "x", "t", ".", "j", "s">>,
       <<"a", "u", "t", "h", "e", "n", "t", "i", "c", "a", "t", "i", "o", "n">>,
       <<"a", "u", "t", "h">>,
       <<"j", "w", "t">>,
       <<"o", "a", "u", "t", "h">>,
       <<"s", "e", "c", "u", "r", "i", "t", "y">>,
       <<"d", "a", "t", "a", "b", "a", "s", "e">>,
       <<"s", "q", "l">>,
       <<"m", "o", "n", "g", "o", "d", "b">>,
       <<"p", "o", "s", "t", "g", "r", "e", "s">>,
       <<"m", "y", "s", "q", "l">>,
       <<"a", "p", "i">>,
       <<"r", "e", "s", "t">>,
       <<"g", "r", "a", "p", "h", "q", "l">>,
       <<"w", "e", "b", "s", "o", "c", "k", "e", "t">>,
       <<"u", "i">>,
       <<"u", "x">>,
       <<"d", "e", "s", "i", "g", "n">>,
       <<"c", "s", "s">>,
       <<"t", "a", "i", "l", "w", "i", "n", "d">>,
       <<"s", "t", "y", "l", "i", "n", "g">>,
       <<"t", "e", "s", "t">>,
       <<"t", "e", "s", "t", "i", "n", "g">>,
       <<"j", "e", "s", "t">>,
       <<"p", "y", "t", "e", "s", "t">>,
       <<"u", "n", "i", "t", " ", "t", "e", "s", "t">>,
       <<"d", "e", "b", "u", "g">>,
       <<"e", "r", "r", "o", "r">>,
       <<"b", "u", "g">>,
       <<"f", "i", "x">>,
       <<"d", "e", "p", "l", "o", "y">>,
       <<"d", "e", "v", "o", "p", "s">>,
       <<"d", "o", "c", "k", "e", "r">>,
       <<"k", "u", "b", "e", "r", "n", "e", "t", "e", "s">>,
       <<"p", "e", "r", "f", "o", "r", "m", "a", "n", "c", "e">>,
       <<"o", "p", "t", "i", "m", "i", "z", "e">>,
       <<"c", "a", "c", "h", "e">>,
       <<"m", "o", "b", "i", "l", "e">>,
       <<"i", "o", "s">>,
       <<"a", "n", "d", "r", "o", "i", "d">>,
       <<"r", "e", "a", "c", "t", "-", "n", "a", "t", "i", "v", "e">>,
       <<"p", "a", "y", "m", "e", "n", "t">>,
       <<"s", "t", "r", "i", "p", "e">>,
       <<"s", "h", "o", "p", "i", "f", "y">>,
       <<"3", "d">>,
       <<"t", "h", "r", "e", "e", "j", "s">>,
       <<"w", "e", "b", "g", "l">>,
       <<"c", "a", "n", "v", "a", "s">>,
       <<"p", "d", "f">>,
       <<"e", "x", "c", "e", "l">>,
       <<"w", "o", "r", "d">>,
       <<"d", "o", "c", "u", "m", "e", "n", "t">>,
       <<"p", "l", "a", "n", "n", "i", "n", "g">>,
       <<"a", "r", "c", "h", "i", "t", "e", "c", "t", "u", "r", "e">>,
       <<"d", "e", "s", "i", "g", "n", " ", "p", "a", "t", "t", "e", "r", "n">>
    >>

\* str.split(sep) with a one-character separator: empty pieces are kept
RECURSIVE SplitOnFrom(_, _, _, _)
SplitOnFrom(s, sep, k, piece) ==
    IF k > Len(s) THEN <<piece>>
    ELSE IF s[k] = sep
         THEN <<piece>> \o SplitOnFrom(s, sep, k + 1, <<>>)
         ELSE SplitOnFrom(s, sep, k + 1, Append(piece, s[k]))

SplitOn(s, sep) == SplitOnFrom(s, sep, 1, <<>>)

\* str.strip(chars)
RECURSIVE StripChars(_, _)
StripChars(s, chars) ==
    IF s # <<>> /\ Head(s) \in chars THEN StripChars(Tail(s), chars)
    ELSE IF s # <<>> /\ s[Len(s)] \in chars
         THEN StripChars(SubSeq(s, 1, Len(s) - 1), chars)
         ELSE s

Quotes == {"\"", "'"}
Dashes == <<"-", "-", "-", "\n">>
DescriptionKey == <<"d", "e", "s", "c", "r", "i", "p", "t", "i", "o", "n", ":", " ">>
KeywordsKey == <<"k", "e", "y", "w", "o", "r", "d", "s", ":", " ", "[">>

\* the text of the file
FileText(file) ==
    IF file.frontmatter = None THEN file.body
    ELSE LET fm == file.frontmatter[1]
         IN  Dashes
             \o (IF fm.description = None THEN <<>>
                 ELSE DescriptionKey \o fm.description[1] \o <<"\n">>)
             \o (IF fm.keywords = None THEN <<>>
                 ELSE KeywordsKey \o fm.keywords[1] \o <<"]", "\n">>)
             \o Dashes \o file.body

\* lines 36-38
ParsedDescription(file) ==
    IF file.frontmatter # None /\ file.frontmatter[1].description # None
    THEN Strip(file.frontmatter[1].description[1])
    ELSE <<>>

\* lines 41-43: the keywords of the header's list, as written
ExplicitKeywords(file) ==
    IF file.frontmatter # None /\ file.frontmatter[1].keywords # None
    THEN LET pieces == SplitOn(file.frontmatter[1].keywords[1], ",")
         IN  [k \in 1..Len(pieces) |-> StripChars(Strip(pieces[k]), Quotes)]
    ELSE <<>>

\* _extract_keywords, lines 49-78
_extract_keywords(text) ==
    LET text_lower == Lower(text)
        Found(keyword) == IsSubstr(keyword, text_lower)
    IN  SliceTo(SelectSeq(tech_keywords, Found), KEYWORD_CAP)

\* Skill(path) for a directory that holds a SKILL.md, lines 14-47
_parse_skill_file(name, file) ==
    LET content == FileText(file)
        description == ParsedDescription(file)
        explicit == ExplicitKeywords(file)
    IN  [name |-> name,
         description |-> description,
         keywords |-> IF explicit # <<>> THEN explicit
                      ELSE _extract_keywords(description \o <<" ">>
                                             \o SliceTo(content, CONTENT_PREFIX)),
         content |-> Str(content)]

(***************************************************************************)
(* Inputs of the parsing checks.                                           *)
(***************************************************************************)
ManyTechnologies ==
    <<"r", "e", "a", "c", "t", " ", "v", "u", "e", " ", "a", "n", "g", "u",
      "l", "a", "r", " ", "p", "y", "t", "h", "o", "n", " ", "n", "o", "d",
      "e", " ", "e", "x", "p", "r", "e", "s", "s", " ", "d", "j", "a", "n",
      "g", "o", " ", "f", "l", "a", "s", "k", " ", "j", "w", "t", " ", "s",
      "q", "l", " ", "a", "p", "i", " ", "c", "s", "s">>
LongBody ==
    <<"x", "x", "x", "x", "x", "x", "x", "x", "x", "x", "x", "x", "x", "x",
      "x", "x", "x", "x", "x", "x", "x", "x", "x", "x", "x", "x", "x", "x",
      "x", "x", "x", "x", "x", "x", "x", "x", "x", "x", "x", "x", "x", "x",
      "x", "x", "x", "x", "x", "x", "x", "x", "x", "x", "x", "x", "x", "x",
      "x", "x", "x", "x", "x", "x", "x", "x", "x", "x", "x", "x", "x", "x",
      "x", "x", "x", "x", "x", "x", "x", "x", "x", "x", "x", "x", "x", "x",
      "x", "x", "x", "x", "x", "x", "x", "x", "x", "x", "x", "x", "x", "x",
      "x", "x", "x", "x", "x", "x", "x", "x", "x", "x", "x", "x", "x", "x",
      "x", "x", "x", "x", "x", "x", "x", "x", "x", "x", "x", "x", "x", "x",
      "x", "x", "x", "x", "x", "x", "x", "x", "x", "x", "x", "x", "x", "x",
      "x", "x", "x", "x", "x", "x", "x", "x", "x", "x", "x", "x", "x", "x",
      "x", "x", "x", "x", "x", "x", "x", "x", "x", "x", "x", "x", "x", "x",
      "x", "x", "x", "x", "x", "x", "x", "x", "x", "x", "x", "x", "x", "x",
      "x", "x", "x", "x", "x", "x", "x", "x", "x", "x", "x", "x", "x", "x",
      "x", "x", "x", "x", "x", "x", "x", "x", "x", "x", "x", "x", "x", "x",
      "x", "x", "x", "x", "x", "x", "x", "x", "x", "x", "x", "x", "x", "x",
      "x", "x", "x", "x", "x", "x", "x", "x", "x", "x", "x", "x", "x", "x",
      "x", "x", "x", "x", "x", "x", "x", "x", "x", "x", "x", "x", "x", "x",
      "x", "x", "x", "x", "x", "x", "x", "x", "x", "x", "x", "x", "x", "x",
      "x", "x", "x", "x", "x", "x", "x", "x", "x", "x", "x", "x", "x", "x",
      "x", "x", "x", "x", "x", "x", "x", "x", "x", "x", "x", "x", "x", "x",
      "x", "x", "x", "x", "x", "x", "x", "x", "x", "x", "x", "x", "x", "x",
      "x", "x", "x", "x", "x", "x", "x", "x", "x", "x", "x", "x", "x", "x",
      "x", "x", "x", "x", "x", "x", "x", "x", "x", "x", "x", "x", "x", "x",
      "x", "x", "x", "x", "x", "x", "x", "x", "x", "x", "x", "x", "x", "x",
      "x", "x", "x", "x", "x", "x", "x", "x", "x", "x", "x", "x", "x", "x",
      "x", "x", "x", "x", "x", "x", "x", "x", "x", "x", "x", "x", "x", "x",
      "x", "x", "x", "x", "x", "x", "x", "x", "x", "x", "x", "x", "x", "x",
      "x", "x", "x", "x", "x", "x", "x", "x", "x", "x", "x", "x", "x", "x",
      "x", "x", "x", "x", "x", "x", "x", "x", "x", "x", "x", "x", "x", "x",
      "x", "x", "x", "x", "x", "x", "x", "x", "x", "x", "x", "x", "x", "x",
      "x", "x", "x", "x", "x", "x", "x", "x", "x", "x", "x", "x", "x", "x",
      "x", "x", "x", "x", "x", "x", "x", "x", "x", "x", "x", "x", "x", "x",
      "x", "x", "x", "x", "x", "x", "x", "x", " ", "p", "d", "f", " ", "e",
      "x", "c", "e", "l">>

HeaderDescriptions ==
    { None, Some(<<"r", "e", "a", "c", "t", " ", "a", "p", "p">>),
      Some(<<" ", "S", "t", "r", "i", "p", "e", " ", "c", "h", "e", "c", "k", "o", "u", "t", " ">>),
      Some(ManyTechnologies) }
HeaderKeywords ==
    { None, Some(<<"r", "e", "a", "c", "t">>),
      Some(<<"\"", "a", "\"", ",", " ", "'", "B", "'">>),
      Some(<<"a", ",", ",", "b">>),
      Some(<<" ">>),
      Some(<<"a", ",", "b", ",", "c", ",", "d", ",", "e", ",", "f", ",", "g", ",", "h", ",",
             "i", ",", "j", ",", "k">>) }
Frontmatters ==
    {None} \cup
    { Some(fm) : fm \in { h \in [description : HeaderDescriptions, keywords : HeaderKeywords] :
                            h.description # None \/ h.keywords # None } }
Bodies == { <<>>, <<"d", "o", "c", "k", "e", "r", " ", "d", "e", "p", "l", "o", "y">>, LongBody }
SkillFiles == [frontmatter : Frontmatters, body : Bodies]
SkillDirNames == { <<"s">> }

InitParse ==
    /\ args \in [name : SkillDirNames, file : SkillFiles]
    /\ out = None
    /\ NoCoordinator

CallParseSkillFile ==
    /\ out = None
    /\ out' = Some(_parse_skill_file(args.name, args.file))
    /\ UNCHANGED args
    /\ UNCHANGED coordVars

NextParse == CallParseSkillFile

SpecParse == InitParse /\ [][NextParse]_vars

\* C13: every loaded skill has at most 10 keywords, whether they were taken
\* from the vocabulary or written in the header's keywords list.
C13_KeywordListCapped ==
    out # None => Len(out[1].keywords) <= KEYWORD_CAP

(***************************************************************************)
(* SkillLoader._load_all_skills.  The skills root is None when the         *)
(* directory is missing, else its entries in iterdir order; an entry is a  *)
(* directory or not, and a directory may hold a SKILL.md.                  *)
(***************************************************************************)
\* a loader that takes every sub-directory, with or without a SKILL.md
_load_all_skills_AnyDirectory(skills_dir) ==
    IF skills_dir = None THEN <<>>
    ELSE LET IsDir(entry) == entry.is_dir
             kept == SelectSeq(skills_dir[1], IsDir)
         IN  [k \in 1..Len(kept) |->
                 IF kept[k].file = None
                 THEN [name |-> kept[k].name, description |-> <<>>, keywords |-> <<>>,
                       content |-> ""]
                 ELSE _parse_skill_file(kept[k].name, kept[k].file[1])]

\* lines 149-157
_load_all_skills(skills_dir) ==
    IF skills_dir = None THEN <<>>
    ELSE LET Qualifies(entry) == entry.is_dir /\ entry.file # None
             kept == SelectSeq(skills_dir[1], Qualifies)
         IN  [k \in 1..Len(kept) |-> _parse_skill_file(kept[k].name, kept[k].file[1])]

\* skills roots with nothing to load: missing, empty, or holding only a plain
\* file and a directory without SKILL.md
EmptySkillsRoots ==
    { None, Some(<<>>),
      Some(<< [name |-> <<"n", "o", "t", "e", "s">>, is_dir |-> FALSE, file |-> None],
              [name |-> <<"a">>, is_dir |-> TRUE, file |-> None] >>) }

(***************************************************************************)
(* The pipeline coordinator, Orchestrator.                                 *)
(*                                                                         *)
(* The collaborators that are not part of these sources are inputs: the    *)
(* intent parser (task type, params, pipeline, approval flag), the agent   *)
(* loader (the loaded agents), the console prompt (the typed answer) and   *)
(* the wall clock.  File writes are assumed to succeed.                    *)
(***************************************************************************)
MaxRoles == 3
MaxClock == 4
MaxWork == 3

\* TaskType members: the enum member's name and its .value
TaskTypes == { [name |-> "BUILD_FEATURE", value |-> "build_feature"],
               [name |-> "FIX_BUG", value |-> "fix_bug"] }
\* intent_parser.should_ask_for_approval
ApprovalTypes == { [name |-> "BUILD_FEATURE", value |-> "build_feature"] }

RoleIds == {"02", "05", "99"}
\* load_all_agents(product_agents_dir)
LoadedAgents == {"02", "05"}
RoleLists == SeqsUpTo(RoleIds, MaxRoles)

\* the attributes of the Agent registered under an id
AgentName(agent_id) == "Agent" \o agent_id
AgentInstructions(agent_id) == "instructions " \o agent_id
\* _load_orchestrator_spec when system_fast.md is missing
orchestrator_instructions == "# Orchestrator specification not found"

\* params: a dict that may hold 'description'
NoParams == [k \in {} |-> <<>>]
Descriptions == { <<"a", " ", "b">> }
ParamSets == {NoParams} \cup {[description |-> d] : d \in Descriptions}
HasDescription(params) == "description" \in DOMAIN params

\* intent_parser.get_agent_pipeline(task_type, is_existing_project)
get_agent_pipeline(task_type, is_existing_project) ==
    IF task_type.name = "BUILD_FEATURE"
    THEN IF is_existing_project THEN <<"99", "02", "05">> ELSE <<"02", "05">>
    ELSE IF is_existing_project THEN <<"02">> ELSE <<"05", "99">>

\* str(task_type) of an Enum member
StrTaskType(task_type) == "TaskType." \o task_type.name

\* the text typed at "Proceed? (y/n): "
Answers == { <<"y">>, <<" ", "Y", "\n">>, <<"n">>, <<"y", "e", "s">> }

\* the catalog loaded from the product's skills directory
SkillPayment ==
    [name |-> PaymentIntegration, description |-> StripeCheckout,
     keywords |-> << <<"s", "t", "r", "i", "p", "e">>, <<"p", "a", "y", "m", "e", "n", "t">> >>,
     content |-> "doc payment-integration"]

(***************************************************************************)
(* load_state, save_state.                                                 *)
(***************************************************************************)
DefaultState(now) ==
    [current_phase |-> "IDLE", active_task |-> None, active_agents |-> <<>>,
     history |-> <<>>, timestamp |-> now]

\* the file's content: text json.load accepts, or anything else
JsonDump(value) == [kind |-> "json", value |-> value]
Garbage == [kind |-> "garbage"]

\* whether load_state returns the stored value
Loadable(file) == file # None /\ file[1].kind = "json"

\* load_state that marks the default it returns for an unreadable file
load_state_MarksCorrupt(file, now) ==
    IF Loadable(file) THEN file[1].value
    ELSE IF file = None THEN DefaultState(now)
    ELSE [DefaultState(now) EXCEPT !.current_phase = "CORRUPT"]

load_state(file, now) ==
    IF Loadable(file) THEN file[1].value ELSE DefaultState(now)

\* dict[key] = value
SetKey(dict, key, value) ==
    [k \in DOMAIN dict \cup {key} |-> IF k = key THEN value ELSE dict[k]]

\* dict.get(key, default)
GetKey(dict, key, default) ==
    IF key \in DOMAIN dict THEN dict[key] ELSE default

\* save_state that writes only when there is no file yet
save_state_file_IfAbsent(file, st) ==
    IF file = None THEN Some(JsonDump(st)) ELSE file

\* save_state, line 102: the state with its timestamp set
save_state_stamp(st, now) == SetKey(st, "timestamp", now)

\* save_state, lines 103-104: open(..., 'w') replaces whatever the file held
save_state_file(file, st) == Some(JsonDump(st))

(***************************************************************************)
(* get_status.                                                             *)
(***************************************************************************)
get_status(o) ==
    [phase |-> GetKey(state[o], "current_phase", "IDLE"),
     task |-> GetKey(state[o], "active_task", None),
     agents_registered |-> Cardinality(agents[o]),
     skills_available |-> Len(skills),
     last_update |-> GetKey(state[o], "timestamp", None)]

(***************************************************************************)
(* The session log: the chunks appended so far.                            *)
(***************************************************************************)
SessionHeader == "# Vibecode Studio Session Log\n"

\* open(..., 'a') creates the file when it is missing
AppendChunk(file, chunk) ==
    IF file = None THEN Some(<<chunk>>) ELSE Some(Append(file[1], chunk))

\* [skill.name for skill, _ in selected]
RECURSIVE SkillNames(_)
SkillNames(selected) ==
    IF selected = <<>> THEN <<>>
    ELSE <<Str(Head(selected)[1].name)>> \o SkillNames(Tail(selected))

\* _log_agent_execution, lines 333-340
LogEntry(agent_id, query, selected) ==
    "\n## Agent " \o agent_id \o " Execution\n"
    \o "- Query: " \o Str(query) \o "\n"
    \o (IF selected # <<>>
        THEN "- Skills: " \o Join(", ", SkillNames(selected)) \o "\n"
        ELSE "- Skills: None\n")
    \o "- Timestamp: cwd\n"

\* a logger that opens the file with 'w' every time
_log_agent_execution_Rewrites(file, agent_id, query, selected) ==
    Some(<<SessionHeader, LogEntry(agent_id, query, selected)>>)

\* _log_agent_execution, lines 343-349
_log_agent_execution(file, agent_id, query, selected) ==
    IF file # None
    THEN Some(Append(file[1], LogEntry(agent_id, query, selected)))
    ELSE Some(<<SessionHeader, LogEntry(agent_id, query, selected)>>)

\* log_action, lines 108-113
ActionEntry(agent_id, action, result, timestamp) ==
    "\n## [" \o ToString(timestamp) \o "] Agent " \o agent_id \o "\n"
    \o "**Action:** " \o action \o "\n"
    \o "**Result:** " \o result \o "\n"
    \o "---\n"

(***************************************************************************)
(* _build_agent_context: the list context_parts; the context is            *)
(* "\n".join(context_parts).                                               *)
(***************************************************************************)
Rule60 == "\n============================================================\n"
Rule40 == "\n----------------------------------------\n"

\* f"{params}" of the dict
ParamsRepr(params) ==
    IF HasDescription(params)
    THEN "{'description': '" \o Str(params.description) \o "'}"
    ELSE "{}"

RECURSIVE SkillParts(_)
SkillParts(selected) ==
    IF selected = <<>> THEN <<>>
    ELSE << "\n## Skill: " \o Str(Head(selected)[1].name),
            Head(selected)[1].content,
            Rule40 >> \o SkillParts(Tail(selected))

\* a summary of the previous results that leaves the skills out
RECURSIVE PreviousParts_NamesOnly(_)
PreviousParts_NamesOnly(previous_results) ==
    IF previous_results = <<>> THEN <<>>
    ELSE << "- " \o Head(previous_results).agent_name \o ": "
            \o Head(previous_results).status >>
         \o PreviousParts_NamesOnly(Tail(previous_results))

\* lines 322-325
RECURSIVE PreviousParts(_)
PreviousParts(previous_results) ==
    IF previous_results = <<>> THEN <<>>
    ELSE LET result == Head(previous_results)
         IN  << "- " \o result.agent_name \o ": " \o result.status >>
             \o (IF result.skills_used # <<>>
                 THEN << "  Skills: " \o Join(", ", result.skills_used) >>
                 ELSE <<>>)
             \o PreviousParts(Tail(previous_results))

_build_agent_context(agent_id, query, params, selected, previous_results) ==
    << "# SYSTEM ORCHESTRATION", orchestrator_instructions, Rule60 >>
    \o << "# AGENT: " \o AgentName(agent_id), AgentInstructions(agent_id), Rule60 >>
    \o (IF selected # <<>>
        THEN << "# SELECTED SKILLS" >> \o SkillParts(selected)
        ELSE <<>>)
    \o << "# CURRENT TASK", "Query: " \o Str(query),
          "Parameters: " \o ParamsRepr(params), Rule60 >>
    \o (IF previous_results # <<>>
        THEN << "# PREVIOUS AGENT RESULTS" >> \o PreviousParts(previous_results)
             \o << Rule60 >>
        ELSE <<>>)

(***************************************************************************)
(* The pieces of execute_pipeline.                                         *)
(***************************************************************************)
PhaseLabel(task_type) == "PIPELINE:" \o task_type.value

\* params.get('description', str(task_type))
ActiveTask(task_type, params) ==
    IF HasDescription(params) THEN Str(params.description) ELSE StrTaskType(task_type)

\* params.get('description', '')
QueryOf(params) ==
    IF HasDescription(params) THEN params.description ELSE <<>>

\* lines 178-179
BeginState(st, task_type, params) ==
    SetKey(SetKey(st, "current_phase", PhaseLabel(task_type)),
           "active_task", Some(ActiveTask(task_type, params)))

\* lines 191-197
NewResults(task_type, query) ==
    [task_type |-> task_type.value, query |-> Str(query), agents_executed |-> <<>>,
     success |-> TRUE, errors |-> <<>>]

\* the missing-agent branch that replaces the error list
RecordMissing_Overwrite(res, agent_id) ==
    [res EXCEPT !.errors = <<"Agent " \o agent_id \o " not found">>,
                !.success = FALSE]

\* the missing-agent branch that leaves success as it was
RecordMissing_KeepSuccess(res, agent_id) ==
    [res EXCEPT !.errors = Append(@, "Agent " \o agent_id \o " not found")]

\* lines 207-210
RecordMissing(res, agent_id) ==
    [res EXCEPT !.errors = Append(@, "Agent " \o agent_id \o " not found"),
                !.success = FALSE]

\* the for loop of line 200 moving on: to the next role, or past the end
NextRole(i, n) ==
    IF i < n THEN [pc |-> "resolve", i |-> i + 1] ELSE [pc |-> "finish", i |-> i + 1]

\* a break in place of the continue
SkipMissing_Break(i, n) == [pc |-> "finish", i |-> i + 1]

\* line 211: continue
SkipMissing(i, n) == NextRole(i, n)

\* lines 252-258
AgentResult(agent_id, selected, ctx) ==
    [agent_id |-> agent_id, agent_name |-> AgentName(agent_id),
     skills_used |-> SkillNames(selected),
     context_size |-> Len(Join("\n", ctx)),
     status |-> "simulated"]

\* line 260
RecordStep(res, agent_result) ==
    [res EXCEPT !.agents_executed = Append(@, agent_result)]

\* a summary that records only the first role of the list
FinishState_FirstRoleOnly(st, task_type, agent_ids) ==
    SetKey(st, "last_pipeline",
           [task_type |-> task_type.value, agents |-> SliceTo(agent_ids, 1),
            timestamp |-> "cwd"])

\* the end of the run that also puts the phase back to IDLE
FinishState_BackToIdle(st, task_type, agent_ids) ==
    SetKey(SetKey(st, "last_pipeline",
                  [task_type |-> task_type.value, agents |-> agent_ids,
                   timestamp |-> "cwd"]),
           "current_phase", "IDLE")

\* lines 264-268
FinishState(st, task_type, agent_ids) ==
    SetKey(st, "last_pipeline",
           [task_type |-> task_type.value, agents |-> agent_ids, timestamp |-> "cwd"])

\* an approval check that takes any answer starting with 'y'
IsAffirmative_Prefix(answer) ==
    Lower(Strip(answer)) # <<>> /\ Head(Lower(Strip(answer))) = "y"

\* lines 155-156: input(...).strip().lower() == 'y'
IsAffirmative(answer) == Lower(Strip(answer)) = <<"y">>

\* lines 157-160
Cancelled == [success |-> FALSE, message |-> "Task cancelled by user"]

(***************************************************************************)
(* The workspace a coordinator is constructed on: nothing, a state file    *)
(* that is not JSON, or the files an earlier process left after a run of   *)
(* FIX_BUG over <<"02">> with no description and no skill selected; and    *)
(* the catalog loaded from the product's skills directory (none, or five   *)
(* skills).                                                                *)
(***************************************************************************)
PriorState ==
    [current_phase |-> "PIPELINE:fix_bug", active_task |-> Some("TaskType.FIX_BUG"),
     active_agents |-> <<>>, history |-> <<>>, timestamp |-> 0,
     last_pipeline |-> [task_type |-> "fix_bug", agents |-> <<"02">>, timestamp |-> "cwd"]]

FullCatalog == <<SkillC, SkillA, SkillPayment, SkillB, SkillCommon>>

InitialWorkspaces ==
    { [stateFile |-> None, sessionFile |-> None, skills |-> _load_all_skills(root)] :
          root \in EmptySkillsRoots }
    \cup
    { [stateFile |-> None, sessionFile |-> None, skills |-> FullCatalog],
      [stateFile |-> Some(Garbage), sessionFile |-> None, skills |-> FullCatalog],
      [stateFile |-> Some(JsonDump(PriorState)),
       sessionFile |-> Some(<<SessionHeader, LogEntry("02", <<>>, <<>>)>>),
       skills |-> FullCatalog] }

\* the positions inside execute_pipeline
Running == {"start", "resolve", "log", "append", "finish"}

\* Orchestrator.__init__, lines 44-56, for coordinator o
Init ==
    /\ args = None
    /\ out = None
    /\ \E w \in InitialWorkspaces :
          /\ stateFile = w.stateFile
          /\ sessionFile = w.sessionFile
          /\ skills = w.skills
          /\ state = [o \in Insts |-> IF o = 1 THEN load_state(w.stateFile, 0) ELSE None]
    /\ clock = 1
    /\ agents = [o \in Insts |-> IF o = 1 THEN LoadedAgents ELSE {}]
    /\ pc = [o \in Insts |-> IF o = 1 THEN "idle" ELSE "none"]
    /\ call = [o \in Insts |-> None]
    /\ loop_i = [o \in Insts |-> 0]
    /\ results = [o \in Insts |-> None]
    /\ selected_skills = [o \in Insts |-> <<>>]
    /\ context = [o \in Insts |-> <<>>]
    /\ approval = [o \in Insts |-> None]
    /\ ret = [o \in Insts |-> None]
    /\ invoked = [o \in Insts |-> 0]
    /\ work = 0

\* a new process: Orchestrator(workspace), lines 33-62
Construct(o) ==
    /\ pc[o] = "none"
    /\ Loadable(stateFile) \/ clock <= MaxClock
    /\ state' = [state EXCEPT ![o] = load_state(stateFile, clock)]
    /\ clock' = IF Loadable(stateFile) THEN clock ELSE clock + 1
    /\ agents' = [agents EXCEPT ![o] = LoadedAgents]
    /\ pc' = [pc EXCEPT ![o] = "idle"]
    /\ UNCHANGED <<pureVars, diskVars, skills, localVars, ret, invoked, work>>

\* the process ends in the middle of a run; nothing in memory survives
Crash(o) ==
    /\ pc[o] \in Running \cup {"approval"}
    /\ pc' = [pc EXCEPT ![o] = "none"]
    /\ state' = [state EXCEPT ![o] = None]
    /\ agents' = [agents EXCEPT ![o] = {}]
    /\ call' = [call EXCEPT ![o] = None]
    /\ loop_i' = [loop_i EXCEPT ![o] = 0]
    /\ results' = [results EXCEPT ![o] = None]
    /\ selected_skills' = [selected_skills EXCEPT ![o] = <<>>]
    /\ context' = [context EXCEPT ![o] = <<>>]
    /\ approval' = [approval EXCEPT ![o] = None]
    /\ ret' = [ret EXCEPT ![o] = None]
    /\ invoked' = [invoked EXCEPT ![o] = 0]
    /\ UNCHANGED <<pureVars, diskVars, clock, skills, work>>

\* register_agent, lines 115-117
register_agent(o, agent_id) ==
    /\ pc[o] = "idle"
    /\ agents' = [agents EXCEPT ![o] = @ \cup {agent_id}]
    /\ call' = [call EXCEPT ![o] = None]
    /\ approval' = [approval EXCEPT ![o] = None]
    /\ ret' = [ret EXCEPT ![o] = None]
    /\ invoked' = [invoked EXCEPT ![o] = 0]
    /\ UNCHANGED <<pureVars, diskVars, clock, skills, state, pc, loop_i, results,
                   selected_skills, context, work>>

\* log_action, lines 106-113
log_action(o, agent_id, action, result) ==
    /\ pc[o] = "idle"
    /\ clock <= MaxClock
    /\ sessionFile' = AppendChunk(sessionFile, ActionEntry(agent_id, action, result, clock))
    /\ clock' = clock + 1
    /\ call' = [call EXCEPT ![o] = None]
    /\ approval' = [approval EXCEPT ![o] = None]
    /\ ret' = [ret EXCEPT ![o] = None]
    /\ invoked' = [invoked EXCEPT ![o] = 0]
    /\ UNCHANGED <<pureVars, stateFile, skills, agents, state, pc, loop_i, results,
                   selected_skills, context, work>>

\* process_user_request, lines 136-155, up to the prompt or the call of line 163
process_user_request(o, task_type, params, is_existing_project) ==
    /\ pc[o] = "idle"
    /\ clock + 1 <= MaxClock
    /\ LET pipeline == get_agent_pipeline(task_type, is_existing_project)
       IN  /\ work + Len(pipeline) <= MaxWork
           /\ work' = work + Len(pipeline)
           /\ call' = [call EXCEPT ![o] =
                          Some([task_type |-> task_type, agent_ids |-> pipeline,
                                params |-> params])]
    /\ pc' = [pc EXCEPT ![o] = IF task_type \in ApprovalTypes THEN "approval" ELSE "start"]
    /\ approval' = [approval EXCEPT ![o] = None]
    /\ ret' = [ret EXCEPT ![o] = None]
    /\ invoked' = [invoked EXCEPT ![o] = 0]
    /\ UNCHANGED <<pureVars, diskVars, clock, skills, agents, state, loop_i, results,
                   selected_skills, context>>

\* process_user_request, lines 155-163: the answer arrives
answer_prompt(o, answer) ==
    /\ pc[o] = "approval"
    /\ approval' = [approval EXCEPT ![o] = Some(answer)]
    /\ IF IsAffirmative(answer)
       THEN /\ pc' = [pc EXCEPT ![o] = "start"]
            /\ UNCHANGED <<ret, call>>
       ELSE /\ pc' = [pc EXCEPT ![o] = "idle"]
            /\ ret' = [ret EXCEPT ![o] = Some(Cancelled)]
            /\ call' = [call EXCEPT ![o] = None]
    /\ UNCHANGED <<pureVars, diskVars, clock, skills, agents, state, loop_i,
                   results, selected_skills, context, invoked, work>>

\* execute_pipeline called directly (it is part of the public surface)
execute_pipeline(o, task_type, agent_ids, params) ==
    /\ pc[o] = "idle"
    /\ clock + 1 <= MaxClock
    /\ work + Len(agent_ids) <= MaxWork
    /\ work' = work + Len(agent_ids)
    /\ call' = [call EXCEPT ![o] =
                   Some([task_type |-> task_type, agent_ids |-> agent_ids, params |-> params])]
    /\ pc' = [pc EXCEPT ![o] = "start"]
    /\ approval' = [approval EXCEPT ![o] = None]
    /\ ret' = [ret EXCEPT ![o] = None]
    /\ invoked' = [invoked EXCEPT ![o] = 0]
    /\ UNCHANGED <<pureVars, diskVars, clock, skills, agents, state, loop_i, results,
                   selected_skills, context>>

\* execute_pipeline, lines 178-197
execute_pipeline_begin(o) ==
    /\ pc[o] = "start"
    /\ LET c == call[o][1]
           st == save_state_stamp(BeginState(state[o], c.task_type, c.params), clock)
       IN  /\ state' = [state EXCEPT ![o] = st]
           /\ stateFile' = save_state_file(stateFile, st)
           /\ results' = [results EXCEPT ![o] =
                             Some(NewResults(c.task_type, QueryOf(c.params)))]
           /\ loop_i' = [loop_i EXCEPT ![o] = 1]
           /\ pc' = [pc EXCEPT ![o] = IF c.agent_ids = <<>> THEN "finish" ELSE "resolve"]
    /\ clock' = clock + 1
    /\ invoked' = [invoked EXCEPT ![o] = @ + 1]
    /\ approval' = [approval EXCEPT ![o] = None]
    /\ UNCHANGED <<pureVars, sessionFile, skills, agents, call, selected_skills,
                   context, ret, work>>

\* execute_pipeline, lines 200-238: one role is looked up; a missing one is
\* recorded and skipped, a present one gets its skills and its context
execute_pipeline_resolve(o) ==
    /\ pc[o] = "resolve"
    /\ LET c == call[o][1]
           agent_id == c.agent_ids[loop_i[o]]
           query == QueryOf(c.params)
       IN  IF agent_id \notin agents[o]
           THEN LET next == SkipMissing(loop_i[o], Len(c.agent_ids))
                IN  /\ results' = [results EXCEPT ![o] = Some(RecordMissing(@[1], agent_id))]
                    /\ pc' = [pc EXCEPT ![o] = next.pc]
                    /\ loop_i' = [loop_i EXCEPT ![o] = next.i]
                    /\ UNCHANGED <<selected_skills, context>>
           ELSE LET selected == select_skills(skills, query, Some(agent_id),
                                              MAX_SKILLS_DEFAULT, MIN_SCORE_DEFAULT)
                IN  /\ selected_skills' = [selected_skills EXCEPT ![o] = selected]
                    /\ context' = [context EXCEPT ![o] =
                                      _build_agent_context(agent_id, query, c.params, selected,
                                                           results[o][1].agents_executed)]
                    /\ pc' = [pc EXCEPT ![o] = "log"]
                    /\ UNCHANGED <<results, loop_i>>
    /\ UNCHANGED <<pureVars, diskVars, clock, skills, agents, state, call, approval,
                   ret, invoked, work>>

\* execute_pipeline, line 241
execute_pipeline_log(o) ==
    /\ pc[o] = "log"
    /\ LET c == call[o][1]
       IN  sessionFile' = _log_agent_execution(sessionFile, c.agent_ids[loop_i[o]],
                                               QueryOf(c.params), selected_skills[o])
    /\ pc' = [pc EXCEPT ![o] = "append"]
    /\ UNCHANGED <<pureVars, stateFile, clock, skills, agents, state, call, loop_i,
                   results, selected_skills, context, approval, ret, invoked, work>>

\* execute_pipeline, lines 252-261
execute_pipeline_append(o) ==
    /\ pc[o] = "append"
    /\ LET c == call[o][1]
           next == NextRole(loop_i[o], Len(c.agent_ids))
       IN  /\ results' = [results EXCEPT ![o] =
                             Some(RecordStep(@[1], AgentResult(c.agent_ids[loop_i[o]],
                                                               selected_skills[o], context[o])))]
           /\ pc' = [pc EXCEPT ![o] = next.pc]
           /\ loop_i' = [loop_i EXCEPT ![o] = next.i]
    /\ UNCHANGED <<pureVars, diskVars, clock, skills, agents, state, call,
                   selected_skills, context, approval, ret, invoked, work>>

\* execute_pipeline, lines 264-278
execute_pipeline_finish(o) ==
    /\ pc[o] = "finish"
    /\ LET c == call[o][1]
           st == save_state_stamp(FinishState(state[o], c.task_type, c.agent_ids), clock)
       IN  /\ state' = [state EXCEPT ![o] = st]
           /\ stateFile' = save_state_file(stateFile, st)
    /\ clock' = clock + 1
    /\ ret' = [ret EXCEPT ![o] = results[o]]
    /\ pc' = [pc EXCEPT ![o] = "idle"]
    /\ results' = [results EXCEPT ![o] = None]
    /\ loop_i' = [loop_i EXCEPT ![o] = 0]
    /\ selected_skills' = [selected_skills EXCEPT ![o] = <<>>]
    /\ context' = [context EXCEPT ![o] = <<>>]
    /\ UNCHANGED <<pureVars, sessionFile, skills, agents, call, approval, invoked, work>>

LogAgents == {"02"}
LogTexts == {"done"}

Step(o) ==
    \/ Construct(o)
    \/ Crash(o)
    \/ \E agent_id \in RoleIds : register_agent(o, agent_id)
    \/ \E agent_id \in LogAgents, action \in LogTexts, result \in LogTexts :
          log_action(o, agent_id, action, result)
    \/ \E task_type \in TaskTypes, params \in ParamSets, is_existing_project \in BOOLEAN :
          process_user_request(o, task_type, params, is_existing_project)
    \/ \E answer \in Answers : answer_prompt(o, answer)
    \/ \E task_type \in TaskTypes, params \in ParamSets, agent_ids \in RoleLists :
          execute_pipeline(o, task_type, agent_ids, params)
    \/ execute_pipeline_begin(o)
    \/ execute_pipeline_resolve(o)
    \/ execute_pipeline_log(o)
    \/ execute_pipeline_append(o)
    \/ execute_pipeline_finish(o)

\* one coordinator on the workspace
Next == Step(1)

Spec == Init /\ [][Next]_vars

(***************************************************************************)
(* Claims about one coordinator (coordinator 1) on its workspace.          *)
(***************************************************************************)
IsRunResult(r) == "agents_executed" \in DOMAIN r

\* coordinator o is idle and its last call returned a RunResult
Returned(o) == pc[o] = "idle" /\ ret[o] # None /\ IsRunResult(ret[o][1])

\* the roles of a list that resolve, resp. do not, in list order
ResolvableOf(o, ids) ==
    LET Test(id) == id \in agents[o] IN SelectSeq(ids, Test)
UnresolvableOf(o, ids) ==
    LET Test(id) == id \notin agents[o] IN SelectSeq(ids, Test)

ExecutedIds(r) == [k \in 1..Len(r.agents_executed) |-> r.agents_executed[k].agent_id]

\* C1: the StepResults are exactly the resolvable role occurrences, one each
\* and in input order -- of the roles handled so far while the loop runs, and
\* of the whole list at return; an unresolvable role stops nothing.
C1_StepPerResolvableRole ==
    /\ pc[1] \in {"resolve", "log", "append", "finish"} =>
          ExecutedIds(results[1][1]) =
              ResolvableOf(1, SubSeq(call[1][1].agent_ids, 1, loop_i[1] - 1))
    /\ pc[1] = "finish" => loop_i[1] = Len(call[1][1].agent_ids) + 1
    /\ Returned(1) =>
          ExecutedIds(ret[1][1]) = ResolvableOf(1, call[1][1].agent_ids)

\* a run over resolvable, unresolvable, resolvable returned two StepResults
C1_Witness ==
    /\ Returned(1)
    /\ Len(call[1][1].agent_ids) = 3
    /\ call[1][1].agent_ids[1] \in agents[1]
    /\ call[1][1].agent_ids[2] \notin agents[1]
    /\ call[1][1].agent_ids[3] \in agents[1]
    /\ call[1][1].agent_ids[1] # call[1][1].agent_ids[3]
    /\ ExecutedIds(ret[1][1]) = <<call[1][1].agent_ids[1], call[1][1].agent_ids[3]>>

\* C2: at return, success is true iff errors is empty, iff every role id of
\* the list resolved (the empty list included).
C2_SuccessIffNoErrors ==
    Returned(1) =>
        /\ ret[1][1].success = (ret[1][1].errors = <<>>)
        /\ ret[1][1].success =
              (\A k \in 1..Len(call[1][1].agent_ids) : call[1][1].agent_ids[k] \in agents[1])

\* a run that produced a StepResult and an error returned success = false
C2_Witness ==
    /\ Returned(1)
    /\ ret[1][1].success = FALSE
    /\ ret[1][1].errors # <<>>
    /\ ret[1][1].agents_executed # <<>>

\* C3: at return, errors holds one entry per unresolvable role occurrence, in
\* input order, each naming its role id, and StepResults and errors together
\* are as many as the roles.
C3_OneErrorPerMissingRole ==
    Returned(1) =>
        LET missing == UnresolvableOf(1, call[1][1].agent_ids)
        IN  /\ ret[1][1].errors =
                  [k \in 1..Len(missing) |-> "Agent " \o missing[k] \o " not found"]
            /\ Len(ret[1][1].agents_executed) + Len(ret[1][1].errors)
                  = Len(call[1][1].agent_ids)

\* Scenario D: the first role resolves and the second does not
C3_Witness ==
    /\ Returned(1)
    /\ call[1][1].agent_ids = <<"02", "99">>
    /\ "99" \notin agents[1]
    /\ Len(ret[1][1].agents_executed) = 1
    /\ ret[1][1].errors = <<"Agent 99 not found">>
    /\ ret[1][1].success = FALSE

\* the phase stored in the state file, None when there is no loadable file
DiskPhase ==
    IF Loadable(stateFile) THEN Some(stateFile[1].value.current_phase) ELSE None

\* C4: once a run is at the role loop or past it (so before any role is
\* resolved, any skill selected or any log entry of the run written) the
\* state file already holds the phase PIPELINE:<category> of that run.
C4_CheckpointBeforeWork ==
    pc[1] \in {"resolve", "log", "append", "finish"} =>
        DiskPhase = Some(PhaseLabel(call[1][1].task_type))

\* the first run on an empty workspace, before its first role is looked up
C4_Witness ==
    /\ pc[1] = "resolve"
    /\ loop_i[1] = 1
    /\ sessionFile = None
    /\ results[1][1].agents_executed = <<>>
    /\ results[1][1].errors = <<>>
    /\ DiskPhase = Some("PIPELINE:build_feature")
    /\ "last_pipeline" \notin DOMAIN stateFile[1].value

\* the answers that are 'y' up to case and surrounding whitespace
AffirmativeAnswers == { <<"y">>, <<" ", "Y", "\n">> }

\* C5: while a request waits for approval nothing is touched; a
\* non-affirmative answer returns the cancellation result with
\* execute_pipeline never entered and with the in-memory state, the state
\* file, the session log and the (absent) results unchanged; an affirmative
\* answer, or a task type that needs no approval, enters execute_pipeline,
\* and a call that returns a RunResult entered it exactly once.
C5_ApprovalGate ==
    [][ /\ (pc[1] = "idle" /\ pc'[1] = "approval") =>
              /\ call'[1][1].task_type \in ApprovalTypes
              /\ invoked'[1] = 0
              /\ UNCHANGED <<state, stateFile, sessionFile, results>>
        /\ (pc[1] = "idle" /\ pc'[1] = "start") => invoked'[1] = 0
        /\ (pc[1] = "approval" /\ pc'[1] # "none") =>
              IF approval'[1][1] \in AffirmativeAnswers
              THEN /\ pc'[1] = "start"
                   /\ ret'[1] = None
                   /\ UNCHANGED <<call, invoked>>
              ELSE /\ pc'[1] = "idle"
                   /\ ret'[1] = Some(Cancelled)
                   /\ invoked'[1] = 0
                   /\ results'[1] = None
                   /\ UNCHANGED <<state, stateFile, sessionFile>>
        /\ (pc[1] = "start" /\ pc'[1] # "none") => invoked'[1] = 1
        /\ (pc[1] \in Running /\ pc'[1] = "idle") =>
              (IsRunResult(ret'[1][1]) /\ invoked'[1] = 1)
      ]_vars

\* a request was cancelled by an answer that is not 'y' but begins with it
C5_Witness ==
    /\ pc[1] = "idle"
    /\ ret[1] = Some(Cancelled)
    /\ approval[1] = Some(<<"y", "e", "s">>)
    /\ invoked[1] = 0

\* C6: a phase of IDLE means no loadable state file existed when the
\* coordinator was constructed and none was written since; after a completed
\* run the phase in memory, on disk and in get_status is PIPELINE:<category>
\* of that run; the phase changes only when a run starts, and no step of a
\* constructed coordinator takes it back to IDLE.
C6_PhaseNeverBackToIdle ==
    /\ [](/\ (pc[1] # "none" /\ get_status(1).phase = "IDLE") => ~Loadable(stateFile)
          /\ Returned(1) =>
                /\ state[1].current_phase = "PIPELINE:" \o ret[1][1].task_type
                /\ get_status(1).phase = "PIPELINE:" \o ret[1][1].task_type
                /\ DiskPhase = Some("PIPELINE:" \o ret[1][1].task_type))
    /\ [][ (pc[1] # "none" /\ pc'[1] # "none") =>
              /\ get_status(1).phase # "IDLE" => get_status(1)'.phase # "IDLE"
              /\ get_status(1)'.phase # get_status(1).phase => pc[1] = "start"
              /\ DiskPhase' # DiskPhase => pc[1] = "start"
         ]_vars

\* a second run has completed and its category replaced the first one's
C6_Witness ==
    /\ Returned(1)
    /\ clock > 4
    /\ ret[1][1].task_type = "build_feature"
    /\ get_status(1).phase = "PIPELINE:build_feature"
    /\ DiskPhase = Some("PIPELINE:build_feature")
    /\ state[1].last_pipeline.task_type = "build_feature"

\* C11: constructing a coordinator on a state file that is not valid JSON
\* succeeds, leaves the file as it is and gives the default state (phase
\* IDLE, no active task, no active agents, empty history), which stays until
\* a run starts.
C11_CorruptStateGivesDefault ==
    /\ []((stateFile = Some(Garbage) /\ pc[1] # "none") =>
            /\ state[1] = DefaultState(state[1].timestamp)
            /\ state[1].current_phase = "IDLE"
            /\ state[1].active_task = None
            /\ state[1].active_agents = <<>>
            /\ state[1].history = <<>>)
    /\ [][(pc[1] = "none" /\ pc'[1] # "none") =>
            (pc'[1] = "idle" /\ stateFile' = stateFile /\ sessionFile' = sessionFile)]_vars

\* a second process was constructed on the corrupt file, which is still there
C11_Witness ==
    /\ stateFile = Some(Garbage)
    /\ pc[1] = "idle"
    /\ state[1].timestamp > 0
    /\ state[1].current_phase = "IDLE"

\* C12: a constructed coordinator always has a state file on disk, holding
\* its in-memory state, even before any run.
C12_StateFileAfterConstruction ==
    pc[1] = "idle" => (Loadable(stateFile) /\ stateFile[1].value = state[1])

(***************************************************************************)
(* Further claims about relevance_score and select_skills.                 *)
(***************************************************************************)
\* C14: for the empty query the description and keyword terms are zero for
\* every skill (a keyword list with an empty entry included), so the score
\* is what the name and affinity terms give.
C14_EmptyQueryNameAndAffinityOnly ==
    (out # None /\ args.query = <<>>) =>
        /\ DescriptionTerm(args.skill, <<>>) = 0
        /\ KeywordTerm(args.skill.keywords, <<>>) = 0
        /\ out[1] = NameTerm(args.skill, <<>>) + AffinityTerm(args.skill, args.agent_id)

\* C16: relevance_score is min(1.0, N + D + K + A): N = 0.5 if the name with
\* its separators replaced by spaces is a substring of the lowercased query;
\* D = 0.3 * |description words /\ query words| / max(|query words|, 1);
\* K = 0.15 for each keyword-list entry, counted with multiplicity, that is a
\* substring of the lowercased query; A = 0.2 if a role id is supplied and
\* the skill's name is in that role's affinity set.
C16_ScoreFormula ==
    out # None =>
        LET q == Lower(args.query)
            name == args.skill.name
            keywords == args.skill.keywords
            dwords == ToSet(Split(Lower(args.skill.description)))
            qwords == ToSet(Split(q))
            N == IF IsSubstr(NameWithSpaces(name), q) THEN W_NAME ELSE 0
            D == (W_DESC * Cardinality(dwords \cap qwords))
                   \div (IF Cardinality(qwords) > 1 THEN Cardinality(qwords) ELSE 1)
            K == W_KEYWORD * Cardinality({k \in 1..Len(keywords) : IsSubstr(keywords[k], q)})
            A == IF /\ args.agent_id # None
                    /\ args.agent_id[1] \in DOMAIN affinities
                    /\ Str(name) \in affinities[args.agent_id[1]]
                 THEN W_AFFINITY ELSE 0
        IN  out[1] = (IF N + D + K + A < ONE THEN N + D + K + A ELSE ONE)

\* C17: for max_count >= 0 select_skills returns the top of the qualifying
\* set: every returned entry is a catalog skill with its score, which is at
\* least min_score; no skill is returned twice; and a catalog skill that is
\* not returned either scores below min_score, or the list already holds
\* max_count entries and none of them scores less than it.
C17_TopOfQualifying ==
    (out # None /\ args.max_skills >= 0) =>
        LET Score(skill) == relevance_score(skill, args.query, args.agent_id)
            chosen == {out[1][k][1] : k \in 1..Len(out[1])}
        IN  /\ \A k \in 1..Len(out[1]) :
                  /\ out[1][k][1] \in ToSet(args.skills)
                  /\ out[1][k][2] = Score(out[1][k][1])
                  /\ out[1][k][2] >= args.min_score
            /\ Cardinality(chosen) = Len(out[1])
            /\ \A j \in 1..Len(args.skills) :
                  args.skills[j] \notin chosen =>
                      \/ Score(args.skills[j]) < args.min_score
                      \/ /\ Len(out[1]) = args.max_skills
                         /\ \A k \in 1..Len(out[1]) : Score(args.skills[j]) <= out[1][k][2]

\* three skills qualify at the default threshold and the best two are returned
C17_Witness ==
    /\ out # None
    /\ args.max_skills = 2
    /\ args.min_score = MIN_SCORE_DEFAULT
    /\ Len(args.skills) = 3
    /\ Qualifying = 3
    /\ Len(out[1]) = 2
    /\ out[1][2][2] > 0

(***************************************************************************)
(* Further claims about one coordinator on its workspace.                  *)
(***************************************************************************)
\* C15: a skills root that is missing or holds no qualifying sub-directory
\* loads as the empty catalog; on the empty catalog select_skills returns the
\* empty list for every query, role, max_count and min_score, and a run still
\* returns one StepResult, with no skills used, for every resolvable role.
C15_EmptyCatalog ==
    /\ \A root \in EmptySkillsRoots : _load_all_skills(root) = <<>>
    /\ skills = <<>> =>
          /\ \A q \in SelectQueries, a \in SelectAgentIds \cup {Some(id) : id \in RoleIds},
                m \in (0 - MaxCount)..MaxCount, s \in SelectMinScores :
                select_skills(skills, q, a, m, s) = <<>>
          /\ pc[1] \in {"log", "append"} => selected_skills[1] = <<>>
          /\ pc[1] \in {"resolve", "log", "append", "finish"} =>
                \A k \in 1..Len(results[1][1].agents_executed) :
                    results[1][1].agents_executed[k].skills_used = <<>>
          /\ Returned(1) =>
                /\ ExecutedIds(ret[1][1]) = ResolvableOf(1, call[1][1].agent_ids)
                /\ \A k \in 1..Len(ret[1][1].agents_executed) :
                      ret[1][1].agents_executed[k].skills_used = <<>>

\* a run with a query over two resolvable roles returned on the empty catalog
C15_Witness ==
    /\ skills = <<>>
    /\ Returned(1)
    /\ ret[1][1].query # ""
    /\ Len(ret[1][1].agents_executed) = 2
    /\ ret[1][1].agents_executed[2].skills_used = <<>>
    /\ ret[1][1].success

\* C18: when execute_pipeline returns, the state was saved again after the
\* last role: the state file holds the in-memory state, stamped by that last
\* save, and its last_pipeline records the run's category and the whole input
\* role list, unresolvable ids included.
C18_FinalSaveRecordsRun ==
    Returned(1) =>
        /\ Loadable(stateFile)
        /\ stateFile[1].value = state[1]
        /\ state[1].timestamp = clock - 1
        /\ "last_pipeline" \in DOMAIN state[1]
        /\ state[1].last_pipeline.task_type = call[1][1].task_type.value
        /\ state[1].last_pipeline.agents = call[1][1].agent_ids

\* a run of three roles of which two did not resolve has returned
C18_Witness ==
    /\ Returned(1)
    /\ Len(call[1][1].agent_ids) = 3
    /\ Len(ret[1][1].errors) = 2
    /\ Len(stateFile[1].value.last_pipeline.agents) = 3
    /\ stateFile[1].value.current_phase = "PIPELINE:" \o ret[1][1].task_type

\* the session log before a step is a prefix of the log after it
LogGrows ==
    sessionFile # None =>
        /\ sessionFile' # None
        /\ Len(sessionFile[1]) <= Len(sessionFile'[1])
        /\ SubSeq(sessionFile'[1], 1, Len(sessionFile[1])) = sessionFile[1]

\* the execution entry of the role the loop is at
CurrentEntry ==
    LogEntry(call[1][1].agent_ids[loop_i[1]], QueryOf(call[1][1].params), selected_skills[1])

\* C19: the session log only grows by appending; a role that resolves gets
\* exactly one execution entry (role id, query, comma-joined skill names or
\* 'None'), appended before its StepResult; a role that does not resolve, and
\* every other step of a run, appends nothing.
C19_LogAppendOnly ==
    [][ /\ LogGrows
        /\ (pc[1] = "resolve" /\ pc'[1] # "none") =>
              /\ sessionFile' = sessionFile
              /\ (pc'[1] = "log") = (call[1][1].agent_ids[loop_i[1]] \in agents[1])
        /\ (pc[1] = "log" /\ pc'[1] # "none") =>
              /\ pc'[1] = "append"
              /\ sessionFile' # None
              /\ Len(sessionFile'[1]) =
                    (IF sessionFile = None THEN 2 ELSE Len(sessionFile[1]) + 1)
              /\ sessionFile'[1][Len(sessionFile'[1])] = CurrentEntry
              /\ results' = results
        /\ (pc[1] = "append" /\ pc'[1] # "none") =>
              /\ sessionFile' = sessionFile
              /\ sessionFile[1][Len(sessionFile[1])] = CurrentEntry
              /\ Len(results'[1][1].agents_executed)
                    = Len(results[1][1].agents_executed) + 1
        /\ (pc[1] \in {"start", "finish", "approval", "none"}) => sessionFile' = sessionFile
      ]_vars

\* a run over a resolvable, an unresolvable and a resolvable role on an empty
\* workspace left the header and two entries, the first naming several skills
C19_Witness ==
    /\ Returned(1)
    /\ Len(ret[1][1].errors) = 1
    /\ Len(ret[1][1].agents_executed) = 2
    /\ Len(ret[1][1].agents_executed[1].skills_used) >= 2
    /\ sessionFile # None
    /\ Len(sessionFile[1]) = 3
    /\ sessionFile[1][1] = SessionHeader

\* C20: whenever the session log exists it begins with the one-line header,
\* and the header is in it exactly once.
C20_LogBeginsWithHeader ==
    sessionFile # None =>
        /\ sessionFile[1][1] = SessionHeader
        /\ Cardinality({k \in 1..Len(sessionFile[1]) : sessionFile[1][k] = SessionHeader}) = 1

\* the summary lines of the roles of a list that resolve: name and status,
\* and the skills selected for the role when there are any
RECURSIVE SummaryOf(_, _, _)
SummaryOf(o, ids, query) ==
    IF ids = <<>> THEN <<>>
    ELSE (IF Head(ids) \in agents[o]
          THEN LET names == SkillNames(select_skills(skills, query, Some(Head(ids)),
                                                     MAX_SKILLS_DEFAULT, MIN_SCORE_DEFAULT))
               IN  << "- " \o AgentName(Head(ids)) \o ": simulated" >>
                   \o (IF names # <<>> THEN << "  Skills: " \o Join(", ", names) >> ELSE <<>>)
          ELSE <<>>)
         \o SummaryOf(o, Tail(ids), query)

\* what follows the task block in an assembled context
AfterTask(ctx) ==
    LET j == CHOOSE k \in 1..Len(ctx) : ctx[k] = "# CURRENT TASK"
    IN  SubSeq(ctx, j + 4, Len(ctx))

\* C21: the context assembled for a role ends with the summary of exactly
\* the roles of the same run that resolved before it, in order (name, status,
\* skills used): nothing for the role itself, for later or unresolvable roles
\* or for an earlier run; with no such role there is no prior-results section.
C21_ContextSummarisesEarlierSteps ==
    pc[1] \in {"log", "append"} =>
        LET c == call[1][1]
            lines == SummaryOf(1, SubSeq(c.agent_ids, 1, loop_i[1] - 1), QueryOf(c.params))
        IN  /\ AfterTask(context[1]) =
                  (IF lines = <<>> THEN <<>>
                   ELSE << "# PREVIOUS AGENT RESULTS" >> \o lines \o << Rule60 >>)
            /\ \A k \in 1..Len(context[1]) :
                  context[1][k] = "# PREVIOUS AGENT RESULTS" => lines # <<>>

\* the second role of a second run: the context names the first role of this
\* run with its skills, and nothing of the run before
C21_Witness ==
    /\ pc[1] = "log"
    /\ loop_i[1] = 2
    /\ Len(call[1][1].agent_ids) = 2
    /\ work = 3
    /\ "last_pipeline" \in DOMAIN state[1]
    /\ state[1].last_pipeline.task_type = "build_feature"
    /\ Len(state[1].last_pipeline.agents) = 1
    /\ state[1].last_pipeline.agents[1] \in agents[1]
    /\ Len(AfterTask(context[1])) = 4

\* C22: once a run has started, active_task is the parameters' description
\* when there is one, and otherwise the category label, the same label that
\* follows 'PIPELINE:' in the phase the run wrote.
C22_ActiveTaskIsDescriptionOrLabel ==
    pc[1] \in {"resolve", "log", "append", "finish"} =>
        LET c == call[1][1]
            label == c.task_type.value
        IN  /\ state[1].current_phase = "PIPELINE:" \o label
            /\ state[1].active_task =
                  Some(IF HasDescription(c.params) THEN Str(c.params.description) ELSE label)

(***************************************************************************)
(* Two coordinators, each its own process, on one workspace.  Their steps  *)
(* interleave, so _log_agent_execution is taken in the two steps the       *)
(* other process can come between: the test of line 343 and the open and   *)
(* write of lines 344-349.  pc "log_append" and "log_create" hold what the *)
(* test found.                                                             *)
(***************************************************************************)
\* lines 343-349, given what session_file.exists() returned
_log_agent_execution_write(file, existed, agent_id, query, selected) ==
    IF existed
    THEN AppendChunk(file, LogEntry(agent_id, query, selected))
    ELSE Some(<<SessionHeader, LogEntry(agent_id, query, selected)>>)

\* execute_pipeline, line 241, up to session_file.exists() of line 343
execute_pipeline_log_test(o) ==
    /\ pc[o] = "log"
    /\ pc' = [pc EXCEPT ![o] = IF sessionFile # None THEN "log_append" ELSE "log_create"]
    /\ UNCHANGED <<pureVars, diskVars, clock, skills, agents, state, call, loop_i,
                   results, selected_skills, context, approval, ret, invoked, work>>

\* lines 344-349
execute_pipeline_log_write(o) ==
    /\ pc[o] \in {"log_append", "log_create"}
    /\ LET c == call[o][1]
       IN  sessionFile' = _log_agent_execution_write(sessionFile, pc[o] = "log_append",
                                                     c.agent_ids[loop_i[o]],
                                                     QueryOf(c.params), selected_skills[o])
    /\ pc' = [pc EXCEPT ![o] = "append"]
    /\ UNCHANGED <<pureVars, stateFile, clock, skills, agents, state, call, loop_i,
                   results, selected_skills, context, approval, ret, invoked, work>>

\* the role lists the two coordinators are run on
TwoRoleLists == { <<"02">>, <<"05", "99">> }

StepTwo(o) ==
    \/ Construct(o)
    \/ \E task_type \in TaskTypes, params \in ParamSets, agent_ids \in TwoRoleLists :
          execute_pipeline(o, task_type, agent_ids, params)
    \/ execute_pipeline_begin(o)
    \/ execute_pipeline_resolve(o)
    \/ execute_pipeline_log_test(o)
    \/ execute_pipeline_log_write(o)
    \/ execute_pipeline_append(o)
    \/ execute_pipeline_finish(o)

NextTwo == \E o \in Insts : StepTwo(o)

SpecTwo == Init /\ [][NextTwo]_vars

\* the coordinator whose save_state came last, by the stamp it wrote
LastWriter == IF state[1].timestamp > state[2].timestamp THEN 1 ELSE 2

\* a save by coordinator o puts exactly o's in-memory state into the file
SaveOverwrites(o) ==
    (pc[o] \in {"start", "finish"} /\ pc'[o] # pc[o]) =>
        stateFile' = Some(JsonDump(state'[o]))

\* a log write by coordinator o keeps what the log held and adds o's entry
LogWriteAppends(o) ==
    (pc[o] \in {"log_append", "log_create"} /\ pc'[o] # pc[o]) =>
        /\ sessionFile' # None
        /\ sessionFile'[1][Len(sessionFile'[1])] =
              LogEntry(call[o][1].agent_ids[loop_i[o]], QueryOf(call[o][1].params),
                       selected_skills[o])
        /\ sessionFile # None => sessionFile'[1] = Append(sessionFile[1],
                                                         sessionFile'[1][Len(sessionFile'[1])])

\* C23: with two coordinators interleaving their runs on one workspace, every
\* save_state replaces the file by the saving coordinator's own state, so
\* when both runs have returned the file holds exactly the state of the one
\* that saved last (its phase, active_task and last_pipeline); and the
\* session log keeps every entry of both, in write order, none lost.
C23_LastWriterWinsLogKeepsAll ==
    /\ []((Returned(1) /\ Returned(2)) =>
            LET c == call[LastWriter][1]
            IN  /\ stateFile = Some(JsonDump(state[LastWriter]))
                /\ stateFile[1].value.current_phase = PhaseLabel(c.task_type)
                /\ stateFile[1].value.active_task = Some(ActiveTask(c.task_type, c.params))
                /\ stateFile[1].value.last_pipeline.agents = c.agent_ids
                /\ stateFile[1].value.last_pipeline.task_type = c.task_type.value)
    /\ [][ /\ \A o \in Insts : SaveOverwrites(o) /\ LogWriteAppends(o)
           /\ LogGrows ]_vars

=============================================================================
